---- MODULE Spec2Model ----
(***************************************************************************)
(* A model of fyne's Heston pricing and calibration module                 *)
(* (src/src/fyne/heston.py): formula, calibration, _reduced_formula,       *)
(* _calibration_loss and _reduced_calibration.                             *)
(*                                                                         *)
(* Floating-point numbers are modelled as finite-precision values: a       *)
(* finite number is an integer count of 1/Scale units, every arithmetic    *)
(* operation rounds its exact result to the nearest unit, and the three    *)
(* IEEE special values NaN, +inf and -inf are kept with their comparison   *)
(* and arithmetic rules.  The adaptive integrator (scipy's quad over the   *)
(* numba-compiled integrand) and the Levenberg-Marquardt solver (scipy's   *)
(* leastsq) are library code: the value of the integral and the solver's   *)
(* proposals, fitted vector and status code are nondeterministic choices.  *)
(***************************************************************************)
EXTENDS Integers, Sequences, FiniteSets, TLC

\* ------------------------------------------------------------- bounds ----
Scale     == 4     \* units per 1.0 of the finite-precision grid
KDepth    == 14    \* direct calls take log-moneyness from -KDepth (grid units)
KMax      == 2     \* ... up to KMax
QBelow    == 4     \* finite integrals run from -QBelow (grid units)
QMax      == 17    \* ... up to QMax
MaxQuotes == 5     \* largest quote batch
MaxEvals  == 3     \* loss evaluations the solver makes in one calibration

\* ------------------------------------------------ program constants ----
NParams == 5       \* length of the reduced parameter vector
PiNum   == 355     \* math.pi as the fraction PiNum / PiDen
PiDen   == 113

\* ------------------------------------------- finite-precision floats ----
Fin(n) == [tag |-> "fin", val |-> n]
NaN    == [tag |-> "nan", val |-> 0]
PInf   == [tag |-> "inf", val |-> 1]
NInf   == [tag |-> "inf", val |-> -1]

IsNaN(x)    == x.tag = "nan"
IsFinite(x) == x.tag = "fin"

\* n / d rounded to the nearest integer (d > 0)
RoundDiv(n, d) == (2 * n + d) \div (2 * d)

Sgn(x) == IF x.val > 0 THEN 1 ELSE IF x.val < 0 THEN -1 ELSE 0
InfOf(s) == IF s >= 0 THEN PInf ELSE NInf

\* x <= y; every comparison with NaN is false
FLe(x, y) ==
    IF IsNaN(x) \/ IsNaN(y) THEN FALSE
    ELSE IF IsFinite(x) /\ IsFinite(y) THEN x.val <= y.val
    ELSE IF x.tag = "inf" THEN (x.val < 0 \/ y = PInf)
    ELSE y = PInf

FGe(x, y) == FLe(y, x)
FGt(x, y) == FGe(x, y) /\ x # y
FLt(x, y) == FLe(x, y) /\ x # y

FSub(x, y) ==
    IF IsNaN(x) \/ IsNaN(y) THEN NaN
    ELSE IF IsFinite(x) /\ IsFinite(y) THEN Fin(x.val - y.val)
    ELSE IF IsFinite(y) THEN x
    ELSE IF IsFinite(x) THEN InfOf(-y.val)
    ELSE IF x = y THEN NaN ELSE x

FMul(x, y) ==
    IF IsNaN(x) \/ IsNaN(y) THEN NaN
    ELSE IF IsFinite(x) /\ IsFinite(y) THEN Fin(RoundDiv(x.val * y.val, Scale))
    ELSE IF Sgn(x) = 0 \/ Sgn(y) = 0 THEN NaN
    ELSE InfOf(Sgn(x) * Sgn(y))

\* numpy division: a zero divisor gives inf or nan, never an exception
FDiv(x, y) ==
    IF IsNaN(x) \/ IsNaN(y) THEN NaN
    ELSE IF IsFinite(x) /\ IsFinite(y) THEN
        IF y.val = 0 THEN (IF x.val = 0 THEN NaN ELSE InfOf(x.val))
        ELSE IF y.val > 0 THEN Fin(RoundDiv(x.val * Scale, y.val))
        ELSE Fin(RoundDiv(- x.val * Scale, - y.val))
    ELSE IF IsFinite(y) THEN InfOf(x.val * (IF y.val < 0 THEN -1 ELSE 1))
    ELSE IF IsFinite(x) THEN Fin(0)
    ELSE NaN

\* Python's builtin max(a, b): b replaces a only when b > a
FMax(a, b) == IF FGt(b, a) THEN b ELSE a

\* e^(m/den) in units of 1/65536, by its power series
RECURSIVE ExpSeries(_, _, _, _, _)
ExpSeries(m, den, j, term, acc) ==
    IF j > 24 THEN acc
    ELSE LET nxt == RoundDiv(term * m, den * j)
         IN  ExpSeries(m, den, j + 1, nxt, acc + nxt)

ExpI(m, den) == ExpSeries(m, den, 1, 65536, 65536)

\* e^(n/Scale) and ln(n/Scale) rounded to the nearest unit (e^k is 0 on
\* underflow)
ExpFix(n) == RoundDiv(ExpI(n, Scale) * Scale, 65536)

LogFix(n) ==
    CHOOSE k \in (-3 * Scale) .. (3 * Scale) :
        /\ ExpI(2 * k - 1, 2 * Scale) * Scale <= n * 65536
        /\ n * 65536 < ExpI(2 * k + 1, 2 * Scale) * Scale

\* the two functions tabulated over the arguments the calls use
ExpTable == [n \in (-4 * Scale) .. (3 * Scale) |-> ExpFix(n)]
LogTable == [n \in 1 .. (4 * Scale) |-> LogFix(n)]

\* np.exp
FExp(k) ==
    IF IsNaN(k) THEN NaN
    ELSE IF k = PInf THEN PInf
    ELSE IF k = NInf THEN Fin(0)
    ELSE IF k.val \in DOMAIN ExpTable THEN Fin(ExpTable[k.val])
    ELSE Fin(ExpFix(k.val))

\* np.log
FLog(x) ==
    IF IsNaN(x) THEN NaN
    ELSE IF x = PInf THEN PInf
    ELSE IF x = NInf \/ x.val < 0 THEN NaN
    ELSE IF x.val = 0 THEN NInf
    ELSE IF x.val \in DOMAIN LogTable THEN Fin(LogTable[x.val])
    ELSE Fin(LogFix(x.val))

One == Fin(Scale)
Pi  == Fin(RoundDiv(PiNum * Scale, PiDen))

\* ------------------------------------------------- outcomes of calls ----
NoOutcome  == [kind |-> "none", value |-> <<>>, code |-> 0]
Ret(v)     == [kind |-> "return", value |-> v, code |-> 0]
Raise(e)   == [kind |-> e, value |-> <<>>, code |-> 0]

EvalErrors == {"below", "above", "numeric"}

\* ------------------------------------------------------ the integral ----
\* quad(lambda u: _integrand(u, k, t, v, kappa, a, nu, rho), 0, np.inf)[0]:
\* a finite value, NaN or an infinity, or an exception out of the integrand
QuadValues == {Fin(i) : i \in (- QBelow) .. QMax} \cup {NaN, PInf, NInf}

QuadOutcomes ==
    {[raised |-> FALSE, val |-> x] : x \in QuadValues}
        \cup {[raised |-> TRUE, val |-> NaN]}

\* the integrals drawn inside a loss evaluation
LossQuadOutcomes ==
    {[raised |-> FALSE, val |-> x] :
        x \in {Fin(0), Fin(RoundDiv(3 * Scale, 4)), Fin(RoundDiv(3 * Scale, 2)),
               NaN}}
        \cup {[raised |-> TRUE, val |-> NaN]}

\* ------------------------------------------------- _reduced_formula ----
\* c = 1 - integral/pi
ReducedPrice(integral) == FSub(One, FDiv(integral, Pi))

NoArbLowBound(k) == FMax(Fin(0), FSub(One, FExp(k)))

NoArbUpBound == One

\* the bounds test with the upper bound tested first
NoArbCheckUpperFirst(c, k) ==
    IF FGe(c, NoArbUpBound) THEN "above"
    ELSE IF FLe(c, NoArbLowBound(k)) THEN "below"
    ELSE "ok"

\* the bounds test: which error, if any, the price c raises at k
NoArbCheck(c, k) ==
    IF FLe(c, NoArbLowBound(k)) THEN "below"
    ELSE IF FGe(c, NoArbUpBound) THEN "above"
    ELSE "ok"

\* _reduced_formula returning the price without the bounds test
ReducedFormulaUnchecked(k, t, v, kappa, a, nu, rho, q) ==
    IF q.raised THEN Raise("numeric") ELSE Ret(ReducedPrice(q.val))

ReducedFormula(k, t, v, kappa, a, nu, rho, q) ==
    IF q.raised THEN Raise("numeric")
    ELSE LET c  == ReducedPrice(q.val)
             ck == NoArbCheck(c, k)
         IN  IF ck = "ok" THEN Ret(c) ELSE Raise(ck)

\* one invocation of _reduced_formula, as the call log keeps it
Invocation(k, t, p, q) ==
    [k |-> k, t |-> t, params |-> p, integral |-> q,
     res |-> ReducedFormula(k, t, p[1], p[2], p[3], p[4], p[5], q)]

\* ---------------------------------------------------------- formula ----
LogMoneyness(strike, underlying) == FLog(FDiv(strike, underlying))

ReducedA(kappa, theta) == FMul(kappa, theta)

FormulaArgs(S, K, t, g) ==
    [k |-> LogMoneyness(K, S), t |-> t,
     params |-> <<g[1], g[2], ReducedA(g[2], g[3]), g[4], g[5]>>]

\* _reduced_formula(...)*underlying_price; an exception passes through
FormulaResult(r, S) ==
    IF r.kind = "return" THEN Ret(FMul(r.value, S)) ELSE r

\* ------------------------------------------------ _calibration_loss ----
\* the residuals with the subtraction turned round: cs - cs_heston
ResidualsSwapped(log, cs) ==
    [i \in 1 .. Len(log) |-> FSub(cs[i], log[i].res.value)]

\* cs_heston - cs over the prices the invocations returned
Residuals(log, cs) ==
    [i \in 1 .. Len(log) |-> FSub(log[i].res.value, cs[i])]

\* ------------------------------------------------------ calibration ----
ReducedPrices(prices, S) == [i \in 1 .. Len(prices) |-> FDiv(prices[i], S)]

LogMoneynesses(strikes, S) ==
    [i \in 1 .. Len(strikes) |-> LogMoneyness(strikes[i], S)]

\* params = np.array([vol0, kappa0, kappa0*theta0, nu0, rho0])
ReducedParams(g) == <<g[1], g[2], FMul(g[2], g[3]), g[4], g[5]>>

\* the fitted vector returned without mapping a back to theta
CalibrationReturnNoDivide(fit) == fit

\* return vol, kappa, a/kappa, nu, rho
CalibrationReturn(fit) ==
    <<fit[1], fit[2], FDiv(fit[3], fit[2]), fit[4], fit[5]>>

\* ---------------------------------------------- _reduced_calibration ----
\* the accepted codes with 5 (maxfev reached) let through
AcceptedWithMaxfev == {1, 2, 3, 4, 5}

Accepted == {1, 2, 3, 4}

\* the status codes leastsq hands back to its caller
IerCodes == 1 .. 8

CalibrationFailed(ier) == [kind |-> "calib_failed", value |-> <<>>, code |-> ier]

\* _reduced_calibration returning the fit whatever the status
ReducedCalibrationBestEffort(fit, ier) == Ret(fit)

ReducedCalibration(fit, ier) ==
    IF ier \notin Accepted THEN CalibrationFailed(ier) ELSE Ret(fit)

\* leastsq rejects a residual vector shorter than the parameter vector
\* ("Improper input: N=5 must not exceed M=...") after its first evaluation
ImproperInput(n, m) == n > m

\* --------------------------------------------------- the input sets ----
Expiries == {Fin(1), Fin(2)}

\* (vol, kappa, theta, nu, rho)
Guesses ==
    {<<Fin(1), kp, th, Fin(2), Fin(-1)>> :
        kp \in {Fin(0), Fin(3), Fin(4)}, th \in {Fin(2), Fin(4)}}

\* reduced vectors (v, kappa, a, nu, rho) of the direct calls and of the
\* solver's proposals
ParamVecs ==
    {<<Fin(1), Fin(4), Fin(1), Fin(2), Fin(-1)>>,
     <<Fin(2), Fin(3), Fin(2), Fin(1), Fin(-2)>>,
     <<Fin(1), Fin(0), Fin(1), Fin(2), Fin(0)>>}

Underlyings == {Fin(4), Fin(8)}
Strikes     == {Fin(2), Fin(4), Fin(6), Fin(12)}

\* a batch of n quotes: strikes, expiries and observed prices in quote order
BatchStrikes(n)  == [i \in 1 .. n |-> Fin(2 * (((i - 1) \div 2) % 3) + 2)]
BatchExpiries(n) == [i \in 1 .. n |-> Fin(((i - 1) % 2) + 1)]
BatchPrices(n)   == [i \in 1 .. n |-> Fin(3 - ((i - 1) % 3))]

\* ------------------------------------------------------------ state ----
VARIABLES
    pc,         \* "idle", "loss" (inside _calibration_loss), "solver", "done"
    call,       \* the entry point running: formula, reduced, loss, calibration
    args,       \* the entry point's arguments
    batch,      \* the reduced quotes [cs, ks, ts] of a loss evaluation
    start,      \* the vector calibration hands to the solver
    params,     \* the reduced vector the current loss evaluation prices
    callLog,    \* the _reduced_formula invocations of the current call
    evals,      \* loss evaluations the solver has asked for
    solverRet,  \* what leastsq returned: [fit, ier]
    outcome     \* the value or exception the call ended with; inside
                \* calibration, what the last loss evaluation returned

vars == <<pc, call, args, batch, start, params, callLog, evals, solverRet,
          outcome>>

NoBatch == [cs |-> <<>>, ks |-> <<>>, ts |-> <<>>]
NoRet   == [fit |-> <<>>, ier |-> 0]

Init ==
    /\ pc = "idle"
    /\ call = "none"
    /\ args = <<>>
    /\ batch = NoBatch
    /\ start = <<>>
    /\ params = <<>>
    /\ callLog = <<>>
    /\ evals = 0
    /\ solverRet = NoRet
    /\ outcome = NoOutcome

\* _reduced_formula(k, t, v, kappa, a, nu, rho), called directly
CallReducedFormula ==
    /\ pc = "idle"
    /\ \E k \in (- KDepth) .. KMax, t \in Expiries, p \in ParamVecs, q \in QuadOutcomes :
        LET inv == Invocation(Fin(k), t, p, q)
        IN  /\ args' = [k |-> Fin(k), t |-> t, params |-> p]
            /\ callLog' = <<inv>>
            /\ outcome' = inv.res
    /\ call' = "reduced"
    /\ pc' = "done"
    /\ UNCHANGED <<batch, start, params, evals, solverRet>>

\* formula(underlying_price, strike, expiry, vol, kappa, theta, nu, rho)
CallFormula ==
    /\ pc = "idle"
    /\ \E S \in Underlyings, K \in Strikes, t \in Expiries, g \in Guesses,
          q \in QuadOutcomes :
        LET a   == FormulaArgs(S, K, t, g)
            inv == Invocation(a.k, a.t, a.params, q)
        IN  /\ args' = [S |-> S, K |-> K, t |-> t, guess |-> g]
            /\ callLog' = <<inv>>
            /\ outcome' = FormulaResult(inv.res, S)
    /\ call' = "formula"
    /\ pc' = "done"
    /\ UNCHANGED <<batch, start, params, evals, solverRet>>

\* _calibration_loss(cs, ks, ts, params), called directly: the loop starts
CallCalibrationLoss ==
    /\ pc = "idle"
    /\ \E n \in 1 .. MaxQuotes, S \in Underlyings, p \in ParamVecs :
        /\ args' = [n |-> n, S |-> S]
        /\ batch' = [cs |-> ReducedPrices(BatchPrices(n), S),
                     ks |-> LogMoneynesses(BatchStrikes(n), S),
                     ts |-> BatchExpiries(n)]
        /\ params' = p
    /\ call' = "loss"
    /\ pc' = "loss"
    /\ callLog' = <<>>
    /\ UNCHANGED <<start, evals, solverRet, outcome>>

\* calibration(underlying_price, strike, expiry, option_prices,
\* initial_guess) up to leastsq's first evaluation of the loss, at the start
\* vector
CallCalibration ==
    /\ pc = "idle"
    /\ \E n \in 1 .. MaxQuotes, S \in Underlyings, g \in Guesses :
        /\ args' = [n |-> n, S |-> S, strikes |-> BatchStrikes(n),
                    expiries |-> BatchExpiries(n), prices |-> BatchPrices(n),
                    guess |-> g]
        /\ batch' = [cs |-> ReducedPrices(BatchPrices(n), S),
                     ks |-> LogMoneynesses(BatchStrikes(n), S),
                     ts |-> BatchExpiries(n)]
        /\ start' = ReducedParams(g)
        /\ params' = ReducedParams(g)
    /\ call' = "calibration"
    /\ pc' = "loss"
    /\ callLog' = <<>>
    /\ evals' = 1
    /\ UNCHANGED <<solverRet, outcome>>

\* one turn of the comprehension in _calibration_loss: the next quote is
\* priced.  An exception ends the whole call; after the last quote the
\* residuals are returned, to the caller or to the solver.
EvalQuote ==
    /\ pc = "loss"
    /\ \E q \in LossQuadOutcomes :
        LET i   == Len(callLog) + 1
            inv == Invocation(batch.ks[i], batch.ts[i], params, q)
            log == Append(callLog, inv)
            n   == Len(batch.ks)
        IN  /\ callLog' = log
            /\ IF inv.res.kind # "return"
               THEN /\ pc' = "done"
                    /\ outcome' = inv.res
               ELSE IF i < n
               THEN /\ pc' = "loss"
                    /\ outcome' = outcome
               ELSE IF call = "loss"
               THEN /\ pc' = "done"
                    /\ outcome' = Ret(Residuals(log, batch.cs))
               ELSE IF evals = 1 /\ ImproperInput(NParams, n)
               THEN /\ pc' = "done"
                    /\ outcome' = Raise("improper")
               ELSE /\ pc' = "solver"
                    /\ outcome' = Ret(Residuals(log, batch.cs))
    /\ UNCHANGED <<call, args, batch, start, params, evals, solverRet>>

\* the solver asks for the loss at another vector
SolverEvaluate ==
    /\ pc = "solver"
    /\ evals < MaxEvals
    /\ \E p \in ParamVecs \cup {start} : params' = p
    /\ evals' = evals + 1
    /\ callLog' = <<>>
    /\ outcome' = NoOutcome
    /\ pc' = "loss"
    /\ UNCHANGED <<call, args, batch, start, solverRet>>

\* leastsq returns (params, ier); _reduced_calibration tests ier and
\* calibration maps the fitted vector back
SolverFinish ==
    /\ pc = "solver"
    /\ evals >= 2
    /\ \E fit \in ParamVecs \cup {start}, ier \in IerCodes :
        LET r == ReducedCalibration(fit, ier)
        IN  /\ solverRet' = [fit |-> fit, ier |-> ier]
            /\ outcome' = IF r.kind = "return"
                          THEN Ret(CalibrationReturn(r.value)) ELSE r
    /\ callLog' = <<>>
    /\ pc' = "done"
    /\ UNCHANGED <<call, args, batch, start, params, evals>>

\* the call is over; the next one starts from scratch (nothing persists)
Finish ==
    /\ pc = "done"
    /\ pc' = "idle"
    /\ call' = "none"
    /\ args' = <<>>
    /\ batch' = NoBatch
    /\ start' = <<>>
    /\ params' = <<>>
    /\ callLog' = <<>>
    /\ evals' = 0
    /\ solverRet' = NoRet
    /\ outcome' = NoOutcome

Next ==
    \/ CallReducedFormula
    \/ CallFormula
    \/ CallCalibrationLoss
    \/ CallCalibration
    \/ EvalQuote
    \/ SolverEvaluate
    \/ SolverFinish
    \/ Finish

Spec == Init /\ [][Next]_vars

\* ----------------------------------------------------- the claims ----
\* the invocations of _reduced_formula the current call has made
Invocations == {callLog[i] : i \in 1 .. Len(callLog)}

\* the invocations whose integral came back as a number (no exception)
Priced == {inv \in Invocations : ~ inv.integral.raised}

\* the price an invocation computed from its integral
PriceOf(inv) == ReducedPrice(inv.integral.val)

\* max(0, 1 - e^k) < c < 1
StrictlyInside(c, k) ==
    /\ FLt(Fin(0), c)
    /\ FLt(FSub(One, FExp(k)), c)
    /\ FLt(c, One)

\* C1: a value returned by _reduced_formula lies strictly inside
\* (max(0, 1 - e^k), 1), and a computed price at or outside either bound
\* makes the call raise a bound error instead of returning.
C1_ReturnedPriceStrictlyInsideBounds ==
    \A inv \in Priced :
        /\ inv.res.kind = "return" =>
              /\ inv.res.value = PriceOf(inv)
              /\ StrictlyInside(inv.res.value, inv.k)
        /\ ~ StrictlyInside(PriceOf(inv), inv.k) =>
              inv.res.kind \in {"below", "above"}

\* C8: every _reduced_formula call returns a finite price or fails; an
\* integral that is NaN or infinite is never returned as a price.
C8_ReturnsFiniteOrFails ==
    \A inv \in Invocations :
        /\ inv.res.kind = "return" => IsFinite(inv.res.value)
        /\ (inv \in Priced /\ ~ IsFinite(inv.integral.val)) =>
              inv.res.kind # "return"

\* C5: formula prices at k = ln(strike/underlying) and a = kappa*theta,
\* returns underlying times the reduced price, and fails with the bound
\* error, returning nothing, when the reduced price is outside the bounds.
C5_FormulaRescalesOrFails ==
    (pc = "done" /\ call = "formula") =>
        LET inv == callLog[1]
            g   == args.guess
        IN  /\ inv.k = FLog(FDiv(args.K, args.S))
            /\ inv.t = args.t
            /\ inv.params = <<g[1], g[2], FMul(g[2], g[3]), g[4], g[5]>>
            /\ inv.res.kind = "return" =>
                  outcome = Ret(FMul(inv.res.value, args.S))
            /\ (inv \in Priced /\ ~ StrictlyInside(PriceOf(inv), inv.k)) =>
                  /\ outcome.kind \in {"below", "above"}
                  /\ outcome.value = <<>>

\* C2 as stated: "below" is raised exactly when c <= max(0, 1 - e^k) and
\* "above" exactly when c >= 1.
C2_ErrorsExactlyByBound ==
    \A inv \in Priced :
        LET c   == PriceOf(inv)
            low == FMax(Fin(0), FSub(One, FExp(inv.k)))
        IN  /\ inv.res.kind = "below" <=> FLe(c, low)
            /\ inv.res.kind = "above" <=> FGe(c, One)

\* C2 (amended): "below" is raised exactly when c <= max(0, 1 - e^k);
\* "above" exactly when c >= 1 and the lower test did not fire; the two
\* are different errors and a call raises at most one of them.
C2_ErrorsByBoundLowerFirst ==
    \A inv \in Priced :
        LET c   == PriceOf(inv)
            low == FMax(Fin(0), FSub(One, FExp(inv.k)))
        IN  /\ inv.res.kind = "below" <=> FLe(c, low)
            /\ inv.res.kind = "above" <=> (FGe(c, One) /\ ~ FLe(c, low))
            /\ inv.res.kind \in {"below", "above"} => inv.res.value = <<>>

C2_Witness ==
    /\ pc = "done"
    /\ call = "reduced"
    /\ outcome.kind = "above"
    /\ FGe(PriceOf(callLog[1]), One)

\* C3: once leastsq has returned, calibration returns a tuple exactly when
\* ier is 1, 2, 3 or 4; for any other ier it raises the calibration failure
\* carrying that ier and hands no fitted vector to the caller.
C3_TupleIffAcceptedStatus ==
    solverRet # NoRet =>
        /\ pc = "done"
        /\ call = "calibration"
        /\ outcome.kind = "return" <=> solverRet.ier \in {1, 2, 3, 4}
        /\ solverRet.ier \notin {1, 2, 3, 4} =>
              outcome = [kind |-> "calib_failed", value |-> <<>>,
                         code |-> solverRet.ier]

C3_Witness ==
    /\ pc = "done"
    /\ solverRet.ier = 5
    /\ outcome.kind = "calib_failed"
    /\ outcome.code = 5

\* the wiring of calibration that C4 states: the solver starts at
\* (v0, kappa0, kappa0*theta0, nu0, rho0), the observed prices are divided
\* by the underlying price, and a success returns (v, kappa, a/kappa, nu, rho)
CalibrationWiring ==
    call = "calibration" =>
        LET g == args.guess
        IN  /\ start = <<g[1], g[2], FMul(g[2], g[3]), g[4], g[5]>>
            /\ evals = 1 => params = start
            /\ Len(batch.cs) = args.n
            /\ \A i \in 1 .. args.n :
                  batch.cs[i] = FDiv(args.prices[i], args.S)
            /\ (pc = "done" /\ outcome.kind = "return") =>
                  LET f == solverRet.fit
                  IN  outcome.value =
                          <<f[1], f[2], FDiv(f[3], f[2]), f[4], f[5]>>

\* the solver handed the start vector back with an accepted status, and
\* kappa0 is not zero
UnchangedFit ==
    /\ pc = "done"
    /\ call = "calibration"
    /\ outcome.kind = "return"
    /\ solverRet.fit = start
    /\ args.guess[2] # Fin(0)

\* C4 as stated: the wiring, and an unchanged fit returns the initial guess.
C4_UnchangedFitReturnsGuess ==
    /\ CalibrationWiring
    /\ UnchangedFit => outcome.value = args.guess

\* C4 (amended): the wiring, and an unchanged fit returns
\* (v0, kappa0, (kappa0*theta0)/kappa0, nu0, rho0): the initial guess when
\* the product kappa0*theta0 is computed without rounding, and otherwise the
\* initial guess except for theta, which carries the rounding of the
\* product and of the quotient.
C4_UnchangedFitReturnsRoundedGuess ==
    /\ CalibrationWiring
    /\ UnchangedFit =>
          LET g == args.guess
          IN  /\ outcome.value =
                     <<g[1], g[2], FDiv(FMul(g[2], g[3]), g[2]), g[4], g[5]>>
              /\ (g[2].val * g[3].val) % Scale = 0 => outcome.value = g

C4_Witness ==
    /\ UnchangedFit
    /\ outcome.value = args.guess
    /\ solverRet.ier = 1

\* C6: a loss evaluation that returns gives one residual per quote, the
\* i-th being the price _reduced_formula returned for (k_i, t_i, params)
\* minus c_i, and it invokes _reduced_formula once per quote, in quote order.
C6_OneResidualPerQuoteInOrder ==
    /\ call \in {"loss", "calibration"} =>
          /\ Len(callLog) <= Len(batch.ks)
          /\ \A i \in 1 .. Len(callLog) :
                /\ callLog[i].k = batch.ks[i]
                /\ callLog[i].t = batch.ts[i]
                /\ callLog[i].params = params
    /\ ((call = "loss" /\ pc = "done") \/ (call = "calibration" /\ pc = "solver"))
          /\ outcome.kind = "return" =>
          /\ Len(outcome.value) = Len(batch.cs)
          /\ Len(callLog) = Len(batch.cs)
          /\ \A i \in 1 .. Len(batch.cs) :
                outcome.value[i] = FSub(callLog[i].res.value, batch.cs[i])

C6_Witness ==
    /\ call = "loss"
    /\ pc = "done"
    /\ outcome.kind = "return"
    /\ Len(outcome.value) >= 3
    /\ \E i \in 1 .. Len(outcome.value) :
          IsFinite(outcome.value[i]) /\ outcome.value[i].val # 0

\* C7: inside calibration every _reduced_formula invocation passes through
\* the bounds test; an invocation that raises is the last one of the call:
\* no residual stands in for it, calibration ends with that very failure,
\* the solver returns nothing and no further evaluation happens.
C7_EvaluationFailureEndsCalibration ==
    call = "calibration" =>
        \A i \in 1 .. Len(callLog) :
            LET inv == callLog[i]
            IN  /\ inv \in Priced =>
                      /\ FLe(PriceOf(inv), FMax(Fin(0), FSub(One, FExp(inv.k))))
                            => inv.res.kind = "below"
                      /\ FGe(PriceOf(inv), One) =>
                            inv.res.kind \in {"below", "above"}
                /\ inv.integral.raised => inv.res.kind = "numeric"
                /\ inv.res.kind \in EvalErrors =>
                      /\ i = Len(callLog)
                      /\ pc = "done"
                      /\ outcome = inv.res
                      /\ outcome.value = <<>>
                      /\ solverRet = NoRet

C7_Witness ==
    /\ call = "calibration"
    /\ pc = "done"
    /\ evals >= 2
    /\ Len(callLog) >= 2
    /\ outcome.kind = "above"

\* an initial guess outside the model's domain (kappa0 = 0)
FarGuess(g) == g[2] = Fin(0)

\* C9 as stated: a single-quote batch, or a far-out initial guess, ends
\* calibration in the convergence failure carrying the solver's status
\* code, never in a tuple or another error.
C9_DegenerateEndsInConvergenceFailure ==
    (pc = "done" /\ call = "calibration"
        /\ (args.n = 1 \/ FarGuess(args.guess))) =>
        /\ outcome.kind = "calib_failed"
        /\ outcome.code = solverRet.ier

\* C9 (amended): on a single-quote batch calibration never returns a tuple
\* and never reaches the status test: it ends with the quote's evaluation
\* failure or with the solver's improper-input error.  From a far-out
\* guess it ends in the convergence failure, carrying the solver's status
\* code, only when the solver finished with a status outside 1..4; it ends
\* with the evaluation failure when a quote's evaluation raised, and in a
\* tuple only when the solver reported an accepted status.
C9_DegenerateEndsInFailure ==
    (pc = "done" /\ call = "calibration") =>
        /\ args.n = 1 =>
              /\ outcome.kind \in EvalErrors \cup {"improper"}
              /\ solverRet = NoRet
        /\ FarGuess(args.guess) =>
              /\ outcome.kind = "calib_failed" =>
                    /\ solverRet.ier \in 5 .. 8
                    /\ outcome.code = solverRet.ier
              /\ outcome.kind \in EvalErrors => solverRet = NoRet
              /\ outcome.kind = "return" => solverRet.ier \in 1 .. 4

C9_Witness ==
    /\ pc = "done"
    /\ call = "calibration"
    /\ args.n = 1
    /\ outcome.kind = "improper"
====
